---- MODULE Spec2Model ----
(***************************************************************************)
(* next-routes-dir: a routes/ tree is compiled into a pages/ directory.    *)
(*                                                                         *)
(* Strings are modelled as sequences of atomic tokens.  A token is a piece *)
(* of text that the program never looks inside: "(" and ")" are the two    *)
(* delimiter characters, "/" is path.sep, ".tsx" ".jsx" ".ts" ".js" are    *)
(* file extensions, and every other token is a run of word characters.     *)
(* A path is the token sequence of its text, so `(g)/page.tsx` is          *)
(* << "(", "g", ")", "/", "page", ".tsx" >>.                               *)
(***************************************************************************)
EXTENDS Integers, Sequences, FiniteSets, TLC

VARIABLES
    routes,     \* routesDir: relative file path -> file contents (an AST or a parse failure)
    pages,      \* pagesDir: relative file path -> generated text
    options,    \* GenerateOptions: the two optional wrapper functions
    passes,     \* the generatePagesDirectory calls made so far, each with its progress
    timer,      \* p-debounce: is the 200 ms timeout armed
    waiting,    \* p-debounce: callers whose promise resolves when the timeout fires
    hist,       \* history of the run (what the last step did), read only by the properties
    arg,        \* input of the function under study (function-level specifications)
    ret         \* its result

vars == << routes, pages, options, passes, timer, waiting, hist, arg, ret >>

(***************************************************************************)
(* Bounds of the model.                                                    *)
(***************************************************************************)
MaxDepth == 2        \* folders on a path given to the path mapper
MaxEdits == 1        \* file-system events the watcher sees after startup
MaxRmFailures == 1   \* removals that fail in one stale-deletion phase
MaxStatements == 3   \* top-level statements of a file given to the export analysis

(***************************************************************************)
(* Text helpers: what String.prototype.startsWith / endsWith / split,      *)
(* Array.prototype.join and the node:path functions do on token sequences. *)
(***************************************************************************)
PathSep == "/"

ExtTokens == { ".tsx", ".jsx", ".ts", ".js" }

StartsWith(str, prefix) ==
    /\ Len(str) >= Len(prefix)
    /\ SubSeq(str, 1, Len(prefix)) = prefix

EndsWith(str, suffix) ==
    /\ Len(str) >= Len(suffix)
    /\ SubSeq(str, Len(str) - Len(suffix) + 1, Len(str)) = suffix

RECURSIVE SplitFrom(_, _, _)
SplitFrom(str, i, cur) ==
    IF i > Len(str) THEN << cur >>
    ELSE IF str[i] = PathSep THEN << cur >> \o SplitFrom(str, i + 1, << >>)
    ELSE SplitFrom(str, i + 1, Append(cur, str[i]))

\* str.split(path.sep)
Split(str) == SplitFrom(str, 1, << >>)

RECURSIVE Join(_)
\* segments.join(path.sep)
Join(segments) ==
    IF Len(segments) = 0 THEN << >>
    ELSE IF Len(segments) = 1 THEN segments[1]
    ELSE segments[1] \o << PathSep >> \o Join(Tail(segments))

\* path.join(dir, rel) for a relative path rel without `.` or `..` segments
PathJoin(dir, rel) == dir \o << PathSep >> \o rel

\* path.relative(dir, file) for a file below dir
PathRelative(dir, file) ==
    IF StartsWith(file, dir \o << PathSep >>)
    THEN SubSeq(file, Len(dir) + 2, Len(file))
    ELSE file

\* path.basename(p)
Basename(p) == LET s == Split(p) IN s[Len(s)]

\* path.dirname(p), of a path with at least one folder
Dirname(p) == LET s == Split(p) IN Join(SubSeq(s, 1, Len(s) - 1))

\* trimExtension(p): the path without the extension of its last segment
trimExtension(p) ==
    IF Len(p) > 0 /\ p[Len(p)] \in ExtTokens THEN SubSeq(p, 1, Len(p) - 1) ELSE p

\* path.parse(p).name: the last segment without its extension
ParseName(p) == trimExtension(Basename(p))

(***************************************************************************)
(* The two directories.  RoutesDir and PagesDir are absolute paths.        *)
(***************************************************************************)
RoutesDir == << PathSep, "proj", PathSep, "routes" >>
PagesDir == << PathSep, "proj", PathSep, "pages" >>

\* RouteFile.relativeFilePathFromRoutesDir
relativeFilePathFromRoutesDir(filePath) == PathRelative(RoutesDir, filePath)

\* a test that looks at the opening parenthesis alone
Mut_IsRouteGroupSegment_StartOnly(routeSegment) ==
    StartsWith(routeSegment, << "(" >>)

\* the test of both loops: routeSegment.startsWith('(') && routeSegment.endsWith(')')
IsRouteGroupSegment(routeSegment) ==
    StartsWith(routeSegment, << "(" >>) /\ EndsWith(routeSegment, << ")" >>)

RECURSIVE PushKept(_, _, _)
PushKept(segments, i, pagesFilePathSegments) ==
    IF i > Len(segments) THEN pagesFilePathSegments
    ELSE PushKept(segments, i + 1,
                  IF ~IsRouteGroupSegment(segments[i])
                  THEN Append(pagesFilePathSegments, segments[i])
                  ELSE pagesFilePathSegments)

Mut_getTargetPagesFilePathSegments_KeepTerminal(filePath) ==
    PushKept(Split(relativeFilePathFromRoutesDir(filePath)), 1, << >>)

\* RouteFile.getTargetPagesFilePathSegments
getTargetPagesFilePathSegments(filePath) ==
    LET routeFilePathSegments == Split(relativeFilePathFromRoutesDir(filePath))
    IN  PushKept(SubSeq(routeFilePathSegments, 1, Len(routeFilePathSegments) - 1),
                 1, << >>)

\* RouteFile.getTargetPagesFilePath
getTargetPagesFilePath(filePath) ==
    IF StartsWith(relativeFilePathFromRoutesDir(filePath), << "api", PathSep >>)
    THEN PathJoin(PagesDir, relativeFilePathFromRoutesDir(filePath))
    ELSE LET targetPagesFilePathSegments == getTargetPagesFilePathSegments(filePath)
             n == Len(targetPagesFilePathSegments)
         IN  IF n = 0
             THEN PathJoin(PagesDir, << "index", ".tsx" >>)
             ELSE PathJoin(PagesDir,
                           Join([targetPagesFilePathSegments EXCEPT
                                    ![n] = targetPagesFilePathSegments[n] \o << ".tsx" >>]))

(***************************************************************************)
(* Source files.  A file's contents are what getAst makes of them: the     *)
(* top-level statements of the syntax tree acorn returns, or a failure of  *)
(* esbuild / acorn.  A node keeps the fields the program reads:            *)
(*   type          node.type                                               *)
(*   declaration   "null" (no declaration), "VariableDeclaration" or       *)
(*                 "FunctionDeclaration"                                   *)
(*   names         the names the declaration binds                         *)
(*   specifiers    the exported names of an export-specifier list          *)
(***************************************************************************)
GSSP == "getServerSideProps"

ExportDefault ==
    [type |-> "ExportDefaultDeclaration", declaration |-> "null",
     names |-> << >>, specifiers |-> << >>]

ExportVar(name) ==
    [type |-> "ExportNamedDeclaration", declaration |-> "VariableDeclaration",
     names |-> << name >>, specifiers |-> << >>]

ExportFn(name) ==
    [type |-> "ExportNamedDeclaration", declaration |-> "FunctionDeclaration",
     names |-> << name >>, specifiers |-> << >>]

ExportList(name) ==
    [type |-> "ExportNamedDeclaration", declaration |-> "null",
     names |-> << >>, specifiers |-> << name >>]

\* A file is described by what the program reads or writes of it: the syntax tree of a
\* source file, the lines of a generated file.
Source(body) == [parses |-> TRUE, body |-> body, text |-> << >>]
Unparsable == [parses |-> FALSE, body |-> << >>, text |-> << >>]
Generated(lines) == [parses |-> TRUE, body |-> << >>, text |-> lines]

\* fs: does the file exist
Exists(fs, filePath) == filePath \in DOMAIN fs

\* RouteFile.getAst: does esbuild.transform / acorn.parse (or readFile) throw
getAstThrows(fs, filePath) == ~Exists(fs, filePath) \/ ~fs[filePath].parses

\* RouteFile.getAst: fileAst.body
getAst(fs, filePath) == fs[filePath].body

\* Array.prototype.find: index of the first element of the given type, 0 for undefined
RECURSIVE FindType(_, _, _)
FindType(body, type, i) ==
    IF i > Len(body) THEN 0
    ELSE IF body[i].type = type THEN i
    ELSE FindType(body, type, i + 1)

SeqHas(seq, x) == \E i \in 1..Len(seq) : seq[i] = x

\* RouteFile.hasGetServerSidePropsExport: "true", "false", or "throws" when getAst
\* throws or a property of null is read
hasGetServerSidePropsExport(fs, filePath) ==
    IF getAstThrows(fs, filePath) THEN "throws"
    ELSE LET body == getAst(fs, filePath)
             i == FindType(body, "ExportNamedDeclaration", 1)
         IN  IF i = 0 THEN "false"                      \* undefined?.declaration
             ELSE IF body[i].declaration = "null" THEN "throws"   \* null.declarations
             ELSE IF /\ body[i].declaration = "VariableDeclaration"
                     /\ SeqHas(body[i].names, GSSP) THEN "true"
             ELSE IF /\ body[i].declaration = "FunctionDeclaration"
                     /\ body[i].names = << GSSP >> THEN "true"
             ELSE "false"                               \* a declaration has no specifiers

\* RouteFile.hasDefaultExport, when getAst does not throw
hasDefaultExport(fs, filePath) ==
    FindType(getAst(fs, filePath), "ExportDefaultDeclaration", 1) # 0

(***************************************************************************)
(* Route groups and layouts.                                               *)
(***************************************************************************)
RECURSIVE PushGroups(_, _, _)
PushGroups(segments, i, routeGroups) ==
    IF i > Len(segments) - 1 THEN routeGroups
    ELSE PushGroups(segments, i + 1,
                    IF IsRouteGroupSegment(segments[i])
                    THEN Append(routeGroups, Join(SubSeq(segments, 1, i)))
                    ELSE routeGroups)

\* RouteFile.getRouteGroups: the route group folders on the path, outermost first
getRouteGroups(filePath) ==
    PushGroups(Split(relativeFilePathFromRoutesDir(filePath)), 1, << >>)

LayoutExtensions == << ".tsx", ".jsx", ".ts", ".js" >>

LayoutCandidate(routeGroupPath, extension) ==
    PathJoin(RoutesDir, PathJoin(routeGroupPath, << "layout", extension >>))

RECURSIVE FirstLayout(_, _, _)
\* the for loop over the extensions: the first layout file that exists, << >> for false
FirstLayout(fs, routeGroupPath, e) ==
    IF e > Len(LayoutExtensions) THEN << >>
    ELSE IF Exists(fs, LayoutCandidate(routeGroupPath, LayoutExtensions[e]))
         THEN LayoutCandidate(routeGroupPath, LayoutExtensions[e])
    ELSE FirstLayout(fs, routeGroupPath, e + 1)

NotFalse(layoutFilePath) == layoutFilePath # << >>

\* layoutFilePaths of generateTargetPagesFile
layoutFilePathsOf(fs, filePath) ==
    LET routeGroups == getRouteGroups(filePath)
    IN  SelectSeq([i \in 1..Len(routeGroups) |-> FirstLayout(fs, routeGroups[i], 1)],
                  NotFalse)

(***************************************************************************)
(* Names of the generated identifiers (change-case on one-word folders).   *)
(***************************************************************************)
UpperFirst(word) ==
    CASE word = "g" -> "G" [] word = "h" -> "H" [] word = "m" -> "M"
      [] word = "blog" -> "Blog" [] OTHER -> word

LowerFirst(word) ==
    CASE word = "G" -> "g" [] word = "H" -> "h" [] word = "M" -> "m"
      [] word = "Blog" -> "blog" [] OTHER -> word

IsWordToken(token) == token \notin { "(", ")", PathSep }

\* str.replaceAll(/\W/g, '')
StripNonWord(str) == SelectSeq(str, IsWordToken)

\* pascalCase of a run of word tokens that spell one word
pascalCase(str) ==
    IF Len(str) = 0 THEN str ELSE << UpperFirst(str[1]) >> \o Tail(str)

\* camelCase of a PascalCase identifier
camelCase(str) ==
    IF Len(str) = 0 THEN str ELSE << LowerFirst(str[1]) >> \o Tail(str)

getLayoutName(layoutFilePath) ==
    pascalCase(StripNonWord(Basename(Dirname(layoutFilePath)))) \o << "Layout" >>

getLayoutGetServerSidePropsExport(layoutFilePath) ==
    camelCase(getLayoutName(layoutFilePath)) \o << "GetServerSideProps" >>

(***************************************************************************)
(* The generated text, line by line (the lines are joined with `;\n`; an   *)
(* empty line separates the imports from the top-level statements).        *)
(***************************************************************************)
NoWrapper == [defined |-> FALSE, name |-> "", path |-> ""]
Wrapper(name, path) == [defined |-> TRUE, name |-> name, path |-> path]

ImportDefaultLine(name, from) ==
    << "import " >> \o name \o << " from '" >> \o from \o << "'" >>

ImportGsspLine(name, from) ==
    << "import { getServerSideProps as " >> \o name \o << " } from '" >> \o from \o << "'" >>

ImportNamedLine(w) == << "import { ", w.name, " } from '", w.path, "'" >>

ImportDeepmergeLine == << "import { deepmerge } from 'next-routes-dir/deepmerge'" >>

GsspCall(name) == << "await " >> \o name \o << "?.(context) ?? { props: {} }" >>

RECURSIVE JoinCalls(_)
\* getServerSidePropsCalls.join(',\n\t\t')
JoinCalls(calls) ==
    IF Len(calls) = 0 THEN << >>
    ELSE IF Len(calls) = 1 THEN calls[1]
    ELSE calls[1] \o << "," >> \o JoinCalls(Tail(calls))

\* mergedGetServerSidePropsFunction
mergedGetServerSidePropsFunction(getServerSidePropsCalls) ==
    IF Len(getServerSidePropsCalls) = 1
    THEN << "async (context) => { return " >> \o getServerSidePropsCalls[1] \o << "; }" >>
    ELSE << "async (context) => { return ", "deepmerge(" >>
            \o JoinCalls(getServerSidePropsCalls) \o << ") }" >>

RECURSIVE getComponentJsxString(_)
getComponentJsxString(layoutFilePaths) ==
    IF Len(layoutFilePaths) = 0
    THEN << "<RouteComponent {...props} />" >>
    ELSE LET layoutName == getLayoutName(layoutFilePaths[1])
         IN  << "<" >> \o layoutName \o << " {...props}>" >>
                \o getComponentJsxString(Tail(layoutFilePaths))
                \o << "</" >> \o layoutName \o << ">" >>

Mut_getComponentJsxString_Reversed(layoutFilePaths) ==
    IF Len(layoutFilePaths) = 0
    THEN << "<RouteComponent {...props} />" >>
    ELSE LET n == Len(layoutFilePaths)
             layoutName == getLayoutName(layoutFilePaths[n])
         IN  << "<" >> \o layoutName \o << " {...props}>" >>
                \o getComponentJsxString(SubSeq(layoutFilePaths, 1, n - 1))
                \o << "</" >> \o layoutName \o << ">" >>

\* the JSX the default export renders
ComponentJsx(layoutFilePaths) == getComponentJsxString(layoutFilePaths)

IsSpecialFile(filePath) == ParseName(filePath) \in { << "_app" >>, << "_document" >> }

IsApiFile(filePath) ==
    StartsWith(relativeFilePathFromRoutesDir(filePath), << "api", PathSep >>)

IsPageFile(filePath) == trimExtension(Basename(filePath)) = << "page" >>

NoWrite == [wrote |-> FALSE, path |-> << >>, contents |-> Generated(<< >>)]
Write(path, contents) == [wrote |-> TRUE, path |-> path, contents |-> contents]

\* the text written for an api/ file that has a default export
ApiReExport(filePath) ==
    << << "import RouteHandler from '" >> \o RoutesDir \o << PathSep >>
          \o trimExtension(relativeFilePathFromRoutesDir(filePath)) \o << "'" >>,
       << "export default RouteHandler" >> >>

\* the layouts whose analysis found a getServerSideProps export, in the order the
\* analyses completed (the insertion order of layoutFilePathsWithGetServerSideProps)
layoutFilePathsWithGetServerSideProps(fs, layoutFilePaths, completion) ==
    LET HasIt(layoutFilePath) == hasGetServerSidePropsExport(fs, layoutFilePath) = "true"
    IN  SelectSeq([k \in 1..Len(layoutFilePaths) |-> layoutFilePaths[completion[k]]], HasIt)

RECURSIVE LayoutImportLines(_, _, _, _)
\* the loop `for (const layoutFilePath of layoutFilePaths)`
LayoutImportLines(layoutFilePaths, i, hasPageComponent, withGssp) ==
    IF i > Len(layoutFilePaths) THEN << >>
    ELSE (IF hasPageComponent
          THEN << ImportDefaultLine(getLayoutName(layoutFilePaths[i]),
                                    trimExtension(layoutFilePaths[i])) >>
          ELSE << >>)
         \o (IF SeqHas(withGssp, layoutFilePaths[i])
             THEN << ImportGsspLine(getLayoutGetServerSidePropsExport(layoutFilePaths[i]),
                                    trimExtension(layoutFilePaths[i])) >>
             ELSE << >>)
         \o LayoutImportLines(layoutFilePaths, i + 1, hasPageComponent, withGssp)

\* the text generateTargetPagesFile assembles for a page file (or an api/ file
\* without a default export), when nothing throws
PagesFileContents(fs, opts, filePath, completion) ==
    LET layoutFilePaths == layoutFilePathsOf(fs, filePath)
        withGssp == layoutFilePathsWithGetServerSideProps(fs, layoutFilePaths, completion)
        hasPageComponent == hasDefaultExport(fs, filePath)
        pageHasGssp == hasGetServerSidePropsExport(fs, filePath) = "true"
        shouldFileExportGetServerSideProps == Len(withGssp) > 0 \/ pageHasGssp
        cw == opts.componentWrapperFunction
        gw == opts.getServerSidePropsWrapperFunction
        getServerSidePropsCalls ==
            [k \in 1..Len(withGssp) |->
                GsspCall(getLayoutGetServerSidePropsExport(withGssp[k]))]
            \o (IF pageHasGssp THEN << GsspCall(<< "pageGetServerSideProps" >>) >>
                ELSE << >>)
        merged == mergedGetServerSidePropsFunction(getServerSidePropsCalls)
        pagesFileImportLines ==
            (IF hasPageComponent
             THEN << << "import React from 'react'" >>,
                     ImportDefaultLine(<< "RouteComponent" >>, trimExtension(filePath)) >>
             ELSE << >>)
            \o LayoutImportLines(layoutFilePaths, 1, hasPageComponent, withGssp)
            \o (IF pageHasGssp
                THEN << ImportGsspLine(<< "pageGetServerSideProps" >>,
                                       trimExtension(filePath)) >>
                ELSE << >>)
            \o (IF cw.defined THEN << ImportNamedLine(cw) >> ELSE << >>)
            \o (IF shouldFileExportGetServerSideProps /\ Len(getServerSidePropsCalls) # 1
                THEN << ImportDeepmergeLine >> ELSE << >>)
            \o (IF shouldFileExportGetServerSideProps /\ gw.defined
                THEN << ImportNamedLine(gw) >> ELSE << >>)
        pagesFileTopLevelStatements ==
            (IF shouldFileExportGetServerSideProps
             THEN << << "export const getServerSideProps = " >>
                     \o (IF gw.defined
                         THEN << gw.name, "(" >> \o merged \o << ")" >>
                         ELSE merged) >>
             ELSE << >>)
            \o (IF hasPageComponent
                THEN << (IF cw.defined
                         THEN << "export default ", cw.name, "((props) => (" >>
                                 \o ComponentJsx(layoutFilePaths) \o << "))" >>
                         ELSE << "export default (props) => (" >>
                                 \o ComponentJsx(layoutFilePaths) \o << ")" >>) >>
                ELSE << >>)
    IN  pagesFileImportLines \o << << >> >> \o pagesFileTopLevelStatements

\* does the try block of generateTargetPagesFile throw before it writes
GenerationThrows(fs, filePath) ==
    IF IsSpecialFile(filePath) THEN ~Exists(fs, filePath)          \* fs.promises.cp
    ELSE \/ getAstThrows(fs, filePath)
         \/ /\ ~(IsApiFile(filePath) /\ hasDefaultExport(fs, filePath))
            /\ (IsApiFile(filePath) \/ IsPageFile(filePath))
            /\ LET layoutFilePaths == layoutFilePathsOf(fs, filePath)
               IN  \/ \E i \in 1..Len(layoutFilePaths) :
                         hasGetServerSidePropsExport(fs, layoutFilePaths[i]) = "throws"
                   \/ hasGetServerSidePropsExport(fs, filePath) = "throws"

\* RouteFile.generateTargetPagesFile: what it writes, if anything.  `completion` is
\* the order in which the concurrent analyses of the layouts complete.
generateTargetPagesFile(fs, opts, filePath, completion) ==
    IF GenerationThrows(fs, filePath) THEN NoWrite              \* caught and logged
    ELSE IF IsSpecialFile(filePath)
         THEN Write(PathJoin(PagesDir, relativeFilePathFromRoutesDir(filePath)),
                    fs[filePath])
    ELSE IF IsApiFile(filePath) /\ hasDefaultExport(fs, filePath)
         THEN Write(getTargetPagesFilePath(filePath), Generated(ApiReExport(filePath)))
    ELSE IF ~IsApiFile(filePath) /\ ~IsPageFile(filePath)
         THEN NoWrite
    ELSE Write(getTargetPagesFilePath(filePath),
               Generated(PagesFileContents(fs, opts, filePath, completion)))

\* the orders in which n concurrent analyses can complete
CompletionOrders(n) == { f \in [1..n -> 1..n] : \A i, j \in 1..n : f[i] = f[j] => i = j }

(***************************************************************************)
(* RouteGenerator.generatePagesDirectory.  A call is a record:             *)
(*   phase       "stale" (routesDir has been read, the stale-deletion      *)
(*               phase is next), "write" (generateTargetPagesFile calls    *)
(*               are running), "done", or "failed" (the catch was taken)   *)
(*   routeFiles  the files readdirp found under routesDir                  *)
(*   out         what each finished generateTargetPagesFile call wrote     *)
(*   removed     the files the stale-deletion phase removed                *)
(*   rmFailed    the files whose removal was rejected                      *)
(*   before      pagesDir as the stale-deletion phase found it             *)
(*   version     the version of the sources when the call started          *)
(*   prior       the earlier calls that had returned when this one started *)
(*   result      pagesDir when the call returned                           *)
(*   endVersion  the version of the sources when the call returned         *)
(***************************************************************************)
EmptyMap == [x \in {} |-> x]

NewPass(fs, version, prior) ==
    [phase |-> "stale", routeFiles |-> DOMAIN fs, out |-> EmptyMap,
     removed |-> {}, rmFailed |-> {}, before |-> EmptyMap, version |-> version,
     prior |-> prior, result |-> EmptyMap, endVersion |-> version]

\* the values of routeFileToPagesFile, that is the keys of pagesFileToRouteFile
routeFileToPagesFileValues(routeFiles) ==
    { getTargetPagesFilePath(routeFilePath) : routeFilePath \in routeFiles }

\* !pagesFileToRouteFile.has(generatedPagesFileRelativePath)
IsRemovedAsStale(routeFiles, generatedPagesFile) ==
    PathRelative(PagesDir, generatedPagesFile) \notin routeFileToPagesFileValues(routeFiles)

Restrict(f, keys) == [k \in keys |-> f[k]]

Put(f, key, value) == [k \in DOMAIN f \cup { key } |-> IF k = key THEN value ELSE f[k]]

Active(i) == passes[i].phase \in { "stale", "write" }

\* the stale-deletion phase (lines 430-457): every rm is issued; a rejected rm
\* rejects Promise.all, which takes the call to its catch
StalePhase(i) ==
    /\ i \in 1..Len(passes)
    /\ passes[i].phase = "stale"
    /\ LET stale == { g \in DOMAIN pages : IsRemovedAsStale(passes[i].routeFiles, g) }
       IN  \E failed \in { S \in SUBSET stale : Cardinality(S) <= MaxRmFailures } :
             /\ pages' = Restrict(pages, DOMAIN pages \ (stale \ failed))
             /\ passes' = [passes EXCEPT
                    ![i].removed = stale \ failed,
                    ![i].rmFailed = failed,
                    ![i].before = pages,
                    ![i].endVersion = hist.version,
                    ![i].phase = IF failed # {} THEN "failed"
                                 ELSE IF passes[i].routeFiles = {} THEN "done"
                                 ELSE "write",
                    ![i].result = IF failed # {} \/ passes[i].routeFiles = {}
                                  THEN pages' ELSE EmptyMap]
    /\ UNCHANGED << routes, options, timer, waiting, hist, arg, ret >>

\* one of the concurrent generateTargetPagesFile calls of the write phase
\* (lines 460-462) runs to its end; the call returns when all of them have
GenerateOne(i, routeFile) ==
    /\ i \in 1..Len(passes)
    /\ passes[i].phase = "write"
    /\ routeFile \in passes[i].routeFiles \ DOMAIN passes[i].out
    /\ \E completion \in CompletionOrders(Len(layoutFilePathsOf(routes, routeFile))) :
         LET o == generateTargetPagesFile(routes, options, routeFile, completion)
             last == DOMAIN passes[i].out \cup { routeFile } = passes[i].routeFiles
         IN  /\ pages' = IF o.wrote THEN Put(pages, o.path, o.contents) ELSE pages
             /\ passes' = [passes EXCEPT
                    ![i].out = Put(passes[i].out, routeFile, o),
                    ![i].endVersion = hist.version,
                    ![i].phase = IF last THEN "done" ELSE "write",
                    ![i].result = IF last THEN pages' ELSE EmptyMap]
    /\ UNCHANGED << routes, options, timer, waiting, hist, arg, ret >>

(***************************************************************************)
(* setupRoutesDirectoryWatcher.  chokidar reports a created file as `add`, *)
(* a modified file as `change` and a removed file as `unlink`; the program *)
(* registers handlers for `add`, `delete` and `change`.                    *)
(***************************************************************************)
\* a call of debouncedGeneratePagesFromRoutes: clearTimeout, setTimeout(..., 200),
\* and the caller waits for the timeout to fire
CallDebounced ==
    /\ timer' = TRUE
    /\ waiting' = waiting + 1

\* the handler chokidar runs for an event on filePath, with the sources as in fs
OnEvent(event, fs, filePath) ==
    CASE event = "add" ->
            /\ CallDebounced
            /\ UNCHANGED << pages, passes >>
      [] event = "delete" ->
            /\ CallDebounced
            /\ UNCHANGED << pages, passes >>
      [] event = "change" ->
            IF ParseName(filePath) = << "layout" >>
            THEN /\ CallDebounced
                 /\ UNCHANGED << pages, passes >>
            ELSE /\ \E completion \in CompletionOrders(Len(layoutFilePathsOf(fs, filePath))) :
                      LET o == generateTargetPagesFile(fs, options, filePath, completion)
                      IN  pages' = IF o.wrote THEN Put(pages, o.path, o.contents) ELSE pages
                 /\ UNCHANGED << passes, timer, waiting >>
      [] OTHER ->                                   \* no handler is registered
            UNCHANGED << pages, passes, timer, waiting >>

(***************************************************************************)
(* The files and contents the model draws from.                            *)
(***************************************************************************)
InRoutes(rel) == PathJoin(RoutesDir, rel)

GroupG == << "(", "g", ")" >>
GroupH == << "(", "h", ")" >>

PageGH == InRoutes(Join(<< GroupG, GroupH, << "page", ".tsx" >> >>))
PageBlog == InRoutes(Join(<< << "blog" >>, << "page", ".tsx" >> >>))
LayoutGTsx == InRoutes(Join(<< GroupG, << "layout", ".tsx" >> >>))
LayoutGJs == InRoutes(Join(<< GroupG, << "layout", ".js" >> >>))
LayoutHTs == InRoutes(Join(<< GroupG, GroupH, << "layout", ".ts" >> >>))
ApiHello == InRoutes(Join(<< << "api" >>, << "hello", ".ts" >> >>))
AppFile == InRoutes(<< "_app", ".tsx" >>)

Universe == { PageGH, PageBlog, LayoutGTsx, LayoutGJs, LayoutHTs, ApiHello, AppFile }

ViewOnly == Source(<< ExportDefault >>)
ViewAndLoaderVar == Source(<< ExportVar(GSSP), ExportDefault >>)
ViewAndLoaderFn == Source(<< ExportFn(GSSP), ExportDefault >>)
ViewAndLoaderSecond == Source(<< ExportVar("config"), ExportVar(GSSP), ExportDefault >>)
ViewAndLoaderList == Source(<< ExportList(GSSP), ExportDefault >>)
LoaderOnly == Source(<< ExportFn(GSSP) >>)
HandlerOnly == Source(<< ExportFn("handler") >>)

\* the contents the files of the universe are drawn with
ContentsOf(filePath) ==
    IF filePath = PageGH
    THEN { ViewOnly, ViewAndLoaderVar, ViewAndLoaderSecond, ViewAndLoaderList,
           LoaderOnly, Unparsable }
    ELSE IF filePath = PageBlog THEN { ViewOnly }
    ELSE IF filePath \in { LayoutGTsx, LayoutHTs }
         THEN { ViewOnly, ViewAndLoaderFn, ViewAndLoaderList }
    ELSE IF filePath = LayoutGJs THEN { ViewOnly }
    ELSE IF filePath = ApiHello THEN { ViewOnly, HandlerOnly }
    ELSE { ViewOnly }

RECURSIVE TreesOver(_)
\* every routes tree over the given files
TreesOver(files) ==
    IF files = {} THEN { EmptyMap }
    ELSE LET f == CHOOSE x \in files : TRUE
             rest == TreesOver(files \ { f })
         IN  rest \cup { Put(t, f, c) : t \in rest, c \in ContentsOf(f) }

OptionChoices ==
    { [componentWrapperFunction |-> cw, getServerSidePropsWrapperFunction |-> gw] :
        cw \in { NoWrapper, Wrapper("__definePage", "~/utils/page") },
        gw \in { NoWrapper, Wrapper("__defineLoader", "~/utils/loader") } }

NoOptions ==
    [componentWrapperFunction |-> NoWrapper, getServerSidePropsWrapperFunction |-> NoWrapper]

NoHist == [events |-> 0, version |-> 0, op |-> "none", file |-> << >>]

(***************************************************************************)
(* Spec: the watcher.  Init is the state in which setupRoutesDirectory-    *)
(* Watcher has registered its handlers and called generatePagesDirectory,  *)
(* whose readdirp of routesDir has resolved.                               *)
(***************************************************************************)
StartTree ==
    (PageGH :> ViewAndLoaderVar) @@ (PageBlog :> ViewOnly)
        @@ (LayoutGTsx :> ViewAndLoaderFn) @@ (LayoutHTs :> ViewAndLoaderFn)

IdentityOrder(n) == [k \in 1..n |-> k]

\* pagesDir as an earlier run of the program on the tree fs left it
LeftBy(fs, opts) ==
    LET Out(f) == generateTargetPagesFile(fs, opts, f,
                      IdentityOrder(Len(layoutFilePathsOf(fs, f))))
        written == { f \in DOMAIN fs : Out(f).wrote }
    IN  [p \in { Out(f).path : f \in written } |->
            Out(CHOOSE f \in written : Out(f).path = p).contents]

\* the program starts on a fresh checkout (no pagesDir), or on a project whose
\* pagesDir an earlier run generated, after which blog/page.tsx may have been deleted
Init ==
    /\ routes \in { StartTree, Restrict(StartTree, DOMAIN StartTree \ { PageBlog }) }
    /\ pages \in { EmptyMap, LeftBy(StartTree, NoOptions) }
    /\ options = NoOptions
    /\ passes = << NewPass(routes, 0, {}) >>
    /\ timer = FALSE
    /\ waiting = 0
    /\ hist = NoHist
    /\ arg = << >>
    /\ ret = << >>

\* what the user does to the sources while the watcher runs: a file and the
\* contents it is created or saved with (saving LayoutGTsx leaves its contents as
\* they are)
Creations == { << ApiHello, HandlerOnly >> }
Modifications == { << PageBlog, ViewAndLoaderSecond >>, << PageBlog, ViewAndLoaderList >>,
                   << LayoutGTsx, ViewAndLoaderFn >> }
Removals == { PageBlog }

Note(op, filePath, changed) ==
    hist' = [events |-> hist.events + 1,
             version |-> IF changed THEN hist.version + 1 ELSE hist.version,
             op |-> op, file |-> filePath]

\* a file is created; chokidar emits `add`
CreateFile(filePath, contents) ==
    /\ hist.events < MaxEdits
    /\ filePath \notin DOMAIN routes
    /\ routes' = Put(routes, filePath, contents)
    /\ Note("create", filePath, TRUE)
    /\ OnEvent("add", routes', filePath)
    /\ UNCHANGED << options, arg, ret >>

\* a file is saved; chokidar emits `change`
ModifyFile(filePath, contents) ==
    /\ hist.events < MaxEdits
    /\ filePath \in DOMAIN routes
    /\ routes' = Put(routes, filePath, contents)
    /\ Note("modify", filePath, contents # routes[filePath])
    /\ OnEvent("change", routes', filePath)
    /\ UNCHANGED << options, arg, ret >>

\* a file is removed; chokidar emits `unlink`
RemoveFile(filePath) ==
    /\ hist.events < MaxEdits
    /\ filePath \in DOMAIN routes
    /\ routes' = Restrict(routes, DOMAIN routes \ { filePath })
    /\ Note("remove", filePath, TRUE)
    /\ OnEvent("unlink", routes', filePath)
    /\ UNCHANGED << options, arg, ret >>

\* the p-debounce timeout fires: fn is called once, every waiting caller resumes
TimerFires ==
    /\ timer
    /\ timer' = FALSE
    /\ waiting' = 0
    /\ passes' = Append(passes, NewPass(routes, hist.version,
                                      { k \in 1..Len(passes) : ~Active(k) }))
    /\ UNCHANGED << routes, pages, options, hist, arg, ret >>

Next ==
    \/ \E i \in 1..Len(passes) : StalePhase(i)
    \/ \E i \in 1..Len(passes) : \E f \in passes[i].routeFiles : GenerateOne(i, f)
    \/ \E e \in Creations : CreateFile(e[1], e[2])
    \/ \E e \in Modifications : ModifyFile(e[1], e[2])
    \/ \E f \in Removals : RemoveFile(f)
    \/ TimerFires

Spec == Init /\ [][Next]_vars

(***************************************************************************)
(* Properties of the watcher and of generatePagesDirectory (Spec).         *)
(***************************************************************************)
Returned(i) == passes[i].phase \in { "done", "failed" }

\* the target paths of the entries a call found under routesDir
TargetsOf(i) == { getTargetPagesFilePath(f) : f \in passes[i].routeFiles }

\* C1 -- Stale cleanup.  When a call of generatePagesDirectory finds in pagesDir a
\* generated file whose source has been deleted, then (a) its stale-deletion phase
\* removes no generated file that is the target path of a current routesDir entry,
\* and once the call has run to completion (b) the file of the deleted source is
\* gone and (c) every generated file of a current entry is there with the contents
\* it had before the call.
C1_StaleCleanupTouchesOnlyStaleFiles ==
    \A i \in 1..Len(passes) :
        LET p == passes[i]
            current == DOMAIN p.before \cap TargetsOf(i)
            orphans == DOMAIN p.before \ TargetsOf(i)
        IN  (p.phase # "stale" /\ orphans # {}) =>
                /\ p.removed \cap current = {}
                /\ p.phase = "done" =>
                      /\ orphans \cap DOMAIN p.result = {}
                      /\ \A g \in current :
                            g \in DOMAIN p.result /\ p.result[g] = p.before[g]

\* C2 -- Idempotence.  Two calls of generatePagesDirectory, the second started after
\* the first returned, both run to completion with no source change from the start
\* of the first to the end of the second, leave pagesDir the same, and write the
\* same text for every route.
C2_SecondRunChangesNothing ==
    \A i, j \in 1..Len(passes) :
        ( /\ i \in passes[j].prior
          /\ passes[i].phase = "done" /\ passes[j].phase = "done"
          /\ passes[i].version = passes[j].endVersion )
        => /\ passes[j].result = passes[i].result
           /\ \A f \in passes[i].routeFiles : passes[j].out[f] = passes[i].out[f]

\* does the syntax tree export `name` by some top-level named export statement
ExportsName(body, name) ==
    \E k \in 1..Len(body) :
        /\ body[k].type = "ExportNamedDeclaration"
        /\ SeqHas(body[k].names, name) \/ SeqHas(body[k].specifiers, name)

ExportsDefault(body) ==
    \E k \in 1..Len(body) : body[k].type = "ExportDefaultDeclaration"

HasLineStarting(text, token) ==
    \E k \in 1..Len(text) : Len(text[k]) > 0 /\ text[k][1] = token

\* the generated text has the exports the page's source has
ReflectsExports(generated, source) ==
    /\ HasLineStarting(generated.text, "export const getServerSideProps = ")
          <=> ExportsName(source.body, GSSP)
    /\ (\E k \in 1..Len(generated.text) :
           SeqHas(generated.text[k], "<RouteComponent {...props} />"))
          <=> ExportsDefault(source.body)

\* the step is chokidar's event `op` on a file
EventStep(ops) == hist'.events = hist.events + 1 /\ hist'.op \in ops

\* C8 -- Single-file incremental update.  A `change` event for a page file that is
\* neither a layout nor _app/_document writes that page's artifact at once, with the
\* exports the file now has, starts and schedules no full pass, and leaves every
\* other file of pagesDir as it is.
C8_ChangeRegeneratesOnlyThatPage ==
    [][ ( /\ EventStep({ "modify" })
          /\ IsPageFile(hist'.file) /\ ~IsApiFile(hist'.file)
          /\ routes'[hist'.file].parses )
        => LET target == getTargetPagesFilePath(hist'.file)
           IN  /\ passes' = passes /\ timer' = timer /\ waiting' = waiting
               /\ DOMAIN pages' \ { target } = DOMAIN pages \ { target }
               /\ \A g \in DOMAIN pages \ { target } : pages'[g] = pages[g]
               /\ target \in DOMAIN pages'
               /\ ReflectsExports(pages'[target], routes'[hist'.file])
      ]_vars

\* C9 -- Debounced structural events.  Every add and every delete of a file under
\* routesDir arms the debounce timeout, whose firing starts the one full pass of the
\* burst.
C9_AddAndDeleteScheduleAPass ==
    [][ EventStep({ "create", "remove" }) => (timer' /\ waiting' = waiting + 1) ]_vars

\* C10 -- Deletion failure does not block generation.  A call in which the removal
\* of a stale file failed has, when it returns, run generateTargetPagesFile for
\* every entry it found under routesDir.
C10_FailedRemovalStillWrites ==
    \A i \in 1..Len(passes) :
        (Returned(i) /\ passes[i].rmFailed # {}) =>
            DOMAIN passes[i].out = passes[i].routeFiles

(***************************************************************************)
(* SpecPath: getTargetPagesFilePath applied to two files of one tree.      *)
(* A file is given by its folders and its name; the function receives the  *)
(* path text.                                                              *)
(***************************************************************************)
DirSegments == { << "api" >>, << "blog" >>, GroupG, << "(", "m" >> }

FileNames == { << "page", ".tsx" >>, << "page", ".jsx" >>, << "hello", ".ts" >> }

RECURSIVE SeqsUpTo(_, _)
\* the sequences over S of length at most n
SeqsUpTo(S, n) ==
    IF n = 0 THEN { << >> }
    ELSE SeqsUpTo(S, n - 1)
         \cup { Append(q, x) : q \in { r \in SeqsUpTo(S, n - 1) : Len(r) = n - 1 }, x \in S }

PathInputs == [dirs : SeqsUpTo(DirSegments, MaxDepth), file : FileNames]

\* the file's path as the program holds it (RouteFile.filePath)
FilePathOf(in) == InRoutes(Join(Append(in.dirs, in.file)))

Quiet ==
    /\ routes = EmptyMap
    /\ pages = EmptyMap
    /\ passes = << >>
    /\ timer = FALSE
    /\ waiting = 0
    /\ hist = NoHist

InitPath ==
    /\ Quiet
    /\ options = NoOptions
    /\ arg \in [p : PathInputs, q : PathInputs]
    /\ ret = [done |-> FALSE, p |-> << >>, q |-> << >>]

MapPaths ==
    /\ ~ret.done
    /\ ret' = [done |-> TRUE,
               p |-> getTargetPagesFilePath(FilePathOf(arg.p)),
               q |-> getTargetPagesFilePath(FilePathOf(arg.q))]
    /\ UNCHANGED << routes, pages, options, passes, timer, waiting, hist, arg >>

NextPath == MapPaths

SpecPath == InitPath /\ [][NextPath]_vars

\* a segment wrapped in `(` ... `)`
Wrapped(segment) == segment[1] = "(" /\ segment[Len(segment)] = ")"

NotWrapped(segment) == ~Wrapped(segment)

\* the folders of a file that are not grouping folders, in their order
Retained(in) == SelectSeq(in.dirs, NotWrapped)

UnderApi(in) == Len(in.dirs) > 0 /\ in.dirs[1] = << "api" >>

IsPage(in) == in.file[1] = "page"

\* C3 -- Path mapping.  A file under api/ maps to pagesDir joined with its relative
\* path unchanged; a page file elsewhere maps to pagesDir joined with its retained
\* folders, `.tsx` appended to the last one, or to pagesDir/index.tsx when no folder
\* is retained.
C3_PathMapping ==
    ret.done =>
        IF UnderApi(arg.p)
        THEN ret.p = PagesDir \o << PathSep >> \o Join(Append(arg.p.dirs, arg.p.file))
        ELSE IsPage(arg.p) =>
                ret.p = IF Retained(arg.p) = << >>
                        THEN PagesDir \o << PathSep, "index", ".tsx" >>
                        ELSE PagesDir \o << PathSep >> \o Join(Retained(arg.p))
                                \o << ".tsx" >>

C3_Witness ==
    /\ ret.done
    /\ arg.p = [dirs |-> << GroupG, << "blog" >> >>, file |-> << "page", ".tsx" >>]
    /\ ret.p = PagesDir \o << PathSep, "blog", ".tsx" >>

RouteRole(in) == IsPage(in) /\ ~UnderApi(in)

InitGen ==
    /\ routes \in TreesOver(Universe)
    /\ pages = EmptyMap
    /\ options \in OptionChoices
    /\ passes = << >>
    /\ timer = FALSE
    /\ waiting = 0
    /\ hist = NoHist
    /\ arg = [file |-> << >>, completion |-> << >>]
    /\ ret = NoWrite

Generate(filePath, completion) ==
    /\ arg' = [file |-> filePath, completion |-> completion]
    /\ ret' = generateTargetPagesFile(routes, options, filePath, completion)
    /\ UNCHANGED << routes, pages, options, passes, timer, waiting, hist >>

NextGen ==
    \E f \in DOMAIN routes :
        \E completion \in CompletionOrders(Len(layoutFilePathsOf(routes, f))) :
            Generate(f, completion)

SpecGen == InitGen /\ [][NextGen]_vars

\* the grouping folders on a file's path, outermost first
GroupFoldersOf(filePath) ==
    LET segs == Split(PathRelative(RoutesDir, filePath))
        IsGroupAt(i) == Wrapped(segs[i])
        at == SelectSeq([i \in 1..(Len(segs) - 1) |-> i], IsGroupAt)
    IN  [k \in 1..Len(at) |-> Join(SubSeq(segs, 1, at[k]))]

\* the layout file directly inside a folder: the first that exists of layout.tsx,
\* layout.jsx, layout.ts, layout.js; << >> when there is none
LayoutIn(fs, folder) ==
    LET File(ext) == RoutesDir \o << PathSep >> \o folder \o << PathSep, "layout", ext >>
    IN  IF File(".tsx") \in DOMAIN fs THEN File(".tsx")
        ELSE IF File(".jsx") \in DOMAIN fs THEN File(".jsx")
        ELSE IF File(".ts") \in DOMAIN fs THEN File(".ts")
        ELSE IF File(".js") \in DOMAIN fs THEN File(".js")
        ELSE << >>

\* the layout chain of a page: the layouts of its grouping folders that have one
LayoutChain(fs, filePath) ==
    LET folders == GroupFoldersOf(filePath)
        Found(layoutFilePath) == layoutFilePath # << >>
    IN  SelectSeq([k \in 1..Len(folders) |-> LayoutIn(fs, folders[k])], Found)

RECURSIVE OpeningTags(_)
OpeningTags(chain) ==
    IF Len(chain) = 0 THEN << >>
    ELSE << "<" >> \o getLayoutName(chain[1]) \o << " {...props}>" >>
            \o OpeningTags(Tail(chain))

RECURSIVE ClosingTags(_)
ClosingTags(chain) ==
    IF Len(chain) = 0 THEN << >>
    ELSE ClosingTags(Tail(chain)) \o << "</" >> \o getLayoutName(chain[1]) \o << ">" >>

\* the chain's layouts nested outermost first around the route's component
NestedView(chain) ==
    OpeningTags(chain) \o << "<RouteComponent {...props} />" >> \o ClosingTags(chain)

SingleNamedFunction(body) ==
    LET fns == { k \in 1..Len(body) :
                    /\ body[k].type = "ExportNamedDeclaration"
                    /\ body[k].declaration = "FunctionDeclaration" }
    IN  IF Cardinality(fns) = 1 THEN body[CHOOSE k \in fns : TRUE].names ELSE << >>

IsDefaultExportLine(line) ==
    \E k \in 1..Len(line) :
        line[k] \in { "export default ", "export default RouteHandler",
                      "export default (props) => (", " as default" }

\* C7 -- Passthrough re-export.  For a file under api/, generateTargetPagesFile
\* writes, at pagesDir joined with the file's relative path, a text whose default
\* export is the source's default export when it has one, and otherwise, when the
\* source exports a single named function, a text whose default export is that
\* function.
C7_ApiReExportsDefaultOrNamed ==
    ( /\ arg.file # << >> /\ IsApiFile(arg.file)
      /\ routes[arg.file].parses )
    => LET body == routes[arg.file].body
           rel == PathRelative(RoutesDir, arg.file)
           text == ret.contents.text
       IN  IF ExportsDefault(body)
           THEN /\ ret.wrote /\ ret.path = PagesDir \o << PathSep >> \o rel
                /\ text = << << "import RouteHandler from '" >> \o RoutesDir
                                \o << PathSep >> \o trimExtension(rel) \o << "'" >>,
                             << "export default RouteHandler" >> >>
           ELSE SingleNamedFunction(body) # << >> =>
                /\ ret.wrote /\ ret.path = PagesDir \o << PathSep >> \o rel
                /\ \E k \in 1..Len(text) :
                      /\ IsDefaultExportLine(text[k])
                      /\ SeqHas(text[k], SingleNamedFunction(body)[1])

(***************************************************************************)
(* SpecMerge: the generated getServerSideProps of a page is called.  The   *)
(* value a loader returns is undefined or an object whose fields (props,   *)
(* redirect) hold objects of numbers.                                      *)
(***************************************************************************)
Undefined == [undefined |-> TRUE, value |-> EmptyMap]
Returns(object) == [undefined |-> FALSE, value |-> object]

PropsX == "props" :> ("x" :> 1)
PropsXY == "props" :> (("x" :> 2) @@ ("y" :> 1))
RedirectOnly == "redirect" :> ("destination" :> 1)
RedirectAndProps == RedirectOnly @@ PropsX

LoaderReturns ==
    { Undefined, Returns(PropsX), Returns(PropsXY), Returns(RedirectOnly),
      Returns(RedirectAndProps) }

\* the module specifiers the generated text imports the loaders from
LoaderModules == { trimExtension(PageGH), trimExtension(LayoutGTsx), trimExtension(LayoutHTs) }

MergeTrees ==
    { t \in TreesOver({ PageGH, LayoutGTsx, LayoutHTs }) :
        /\ PageGH \in DOMAIN t /\ t[PageGH] \in { ViewOnly, ViewAndLoaderVar }
        /\ \A f \in DOMAIN t \ { PageGH } : t[f] \in { ViewOnly, ViewAndLoaderFn } }

\* deepmerge-ts on objects of objects of numbers: fields are combined key-wise, two
\* objects under one key are merged, and of two numbers the later wins
MergeTwo(a, b) ==
    [k \in DOMAIN a \cup DOMAIN b |->
        IF k \in DOMAIN a /\ k \in DOMAIN b
        THEN [n \in DOMAIN a[k] \cup DOMAIN b[k] |->
                 IF n \in DOMAIN b[k] THEN b[k][n] ELSE a[k][n]]
        ELSE IF k \in DOMAIN b THEN b[k] ELSE a[k]]

RECURSIVE deepmergeObjects(_)
deepmergeObjects(args) ==
    IF Len(args) = 0 THEN EmptyMap
    ELSE IF Len(args) = 1 THEN args[1]
    ELSE deepmergeObjects(<< MergeTwo(args[1], args[2]) >> \o SubSeq(args, 3, Len(args)))

Mut_deepmerge_KeepProps(args) == deepmergeObjects(args)

\* deepmerge of next-routes-dir/deepmerge
deepmerge(args) ==
    LET merged == deepmergeObjects(args)
    IN  IF "redirect" \in DOMAIN merged
        THEN Restrict(merged, DOMAIN merged \ { "props" })
        ELSE merged

\* index of the first occurrence of token in line at or after i, 0 if none
RECURSIVE IndexFrom(_, _, _)
IndexFrom(line, token, i) ==
    IF i > Len(line) THEN 0
    ELSE IF line[i] = token THEN i
    ELSE IndexFrom(line, token, i + 1)

RECURSIVE CalledFrom(_, _)
\* the identifiers the generated function calls, in the order of the calls
CalledFrom(line, i) ==
    LET a == IndexFrom(line, "await ", i)
        z == IndexFrom(line, "?.(context) ?? { props: {} }", a)
    IN  IF a = 0 THEN << >>
        ELSE << SubSeq(line, a + 1, z - 1) >> \o CalledFrom(line, z + 1)

\* the module an identifier is bound to by
\* `import { getServerSideProps as <identifier> } from '<module>'`
ModuleOf(text, identifier) ==
    LET k == CHOOSE k \in 1..Len(text) :
                 /\ Len(text[k]) > 0
                 /\ text[k][1] = "import { getServerSideProps as "
                 /\ SubSeq(text[k], 2, IndexFrom(text[k], " } from '", 1) - 1) = identifier
    IN  SubSeq(text[k], IndexFrom(text[k], " } from '", 1) + 1, Len(text[k]) - 1)

\* `await <identifier>?.(context) ?? { props: {} }`
CallValue(text, returns, identifier) ==
    LET r == returns[ModuleOf(text, identifier)]
    IN  IF r.undefined THEN "props" :> EmptyMap ELSE r.value

\* the value the generated function returns
mergedValue(text, returns) ==
    LET line == text[CHOOSE k \in 1..Len(text) :
                        Len(text[k]) > 0 /\ text[k][1] = "export const getServerSideProps = "]
        called == CalledFrom(line, 1)
        values == [k \in 1..Len(called) |-> CallValue(text, returns, called[k])]
    IN  IF SeqHas(line, "deepmerge(") THEN deepmerge(values) ELSE values[1]

InitMerge ==
    /\ Quiet
    /\ options = NoOptions
    /\ arg \in [tree : MergeTrees, returns : [LoaderModules -> LoaderReturns]]
    /\ ret = [called |-> FALSE, from |-> << >>, value |-> EmptyMap]

\* the page is generated (the analyses completing in the given order) and its
\* getServerSideProps is called
InvokeGetServerSideProps(completion) ==
    LET o == generateTargetPagesFile(arg.tree, options, PageGH, completion)
        text == o.contents.text
    IN  /\ ~ret.called
        /\ o.wrote
        /\ HasLineStarting(text, "export const getServerSideProps = ")
        /\ ret' = [called |-> TRUE,
                   from |-> LET line == text[CHOOSE k \in 1..Len(text) :
                                    /\ Len(text[k]) > 0
                                    /\ text[k][1] = "export const getServerSideProps = "]
                                called == CalledFrom(line, 1)
                            IN  [k \in 1..Len(called) |-> ModuleOf(text, called[k])],
                   value |-> mergedValue(text, arg.returns)]
        /\ UNCHANGED << routes, pages, options, passes, timer, waiting, hist, arg >>

NextMerge ==
    \E completion \in CompletionOrders(Len(layoutFilePathsOf(arg.tree, PageGH))) :
        InvokeGetServerSideProps(completion)

SpecMerge == InitMerge /\ [][NextMerge]_vars

RedirectSupersedesProps ==
    "redirect" \in DOMAIN ret.value => "props" \notin DOMAIN ret.value

ImportStatement ==
    [type |-> "ImportDeclaration", declaration |-> "null",
     names |-> << >>, specifiers |-> << >>]

TopLevelStatements ==
    { ImportStatement, ExportDefault,
      ExportVar(GSSP), ExportFn(GSSP), ExportList(GSSP),
      ExportVar("config"), ExportList("config") }

Bodies == SeqsUpTo(TopLevelStatements, MaxStatements)

NotAnalysed == [called |-> FALSE, getServerSideProps |-> "false", default |-> FALSE]

InitDetect ==
    /\ \E body \in Bodies : routes = (PageBlog :> Source(body))
    /\ pages = EmptyMap
    /\ options = NoOptions
    /\ passes = << >>
    /\ timer = FALSE
    /\ waiting = 0
    /\ hist = NoHist
    /\ arg = [file |-> << >>]
    /\ ret = NotAnalysed

\* the two analyses of generateTargetPagesFile are run on the file
Analyse(filePath) ==
    /\ ~ret.called
    /\ arg' = [file |-> filePath]
    /\ ret' = [called |-> TRUE,
               getServerSideProps |-> hasGetServerSidePropsExport(routes, filePath),
               default |-> hasDefaultExport(routes, filePath)]
    /\ UNCHANGED << routes, pages, options, passes, timer, waiting, hist >>

NextDetect == \E f \in DOMAIN routes : Analyse(f)

SpecDetect == InitDetect /\ [][NextDetect]_vars

\* the answer the data-loader analysis is to give: true exactly when some top-level
\* named export statement binds getServerSideProps, false otherwise, never a throw
DetectsDataLoader ==
    ret.called =>
        ret.getServerSideProps
            = (IF ExportsName(routes[arg.file].body, GSSP) THEN "true" ELSE "false")

\* the answer of the default-export analysis
DetectsDefaultExport ==
    ret.called => (ret.default <=> ExportsDefault(routes[arg.file].body))

\* C11 -- Data-loader detection.  For every file that parses,
\* hasGetServerSidePropsExport returns true exactly when some top-level named export
\* statement binds getServerSideProps (function declaration, variable declaration or
\* export-specifier list, at any position) and returns false without throwing
\* otherwise; hasDefaultExport returns true exactly when the file has a top-level
\* default export.
C11_DetectsExportsAtAnyPosition == DetectsDataLoader /\ DetectsDefaultExport

\* the analysis threw on a file whose only named export is `export { getServerSideProps }`
C11_ThrowsOnSpecifierList ==
    /\ ret.called
    /\ routes[arg.file].body = << ExportList(GSSP) >>
    /\ ret.getServerSideProps = "throws"

\* the analysis answered false on a file whose second named export binds the name
C11_MissesLaterExport ==
    /\ ret.called
    /\ routes[arg.file].body = << ExportVar("config"), ExportFn(GSSP) >>
    /\ ret.getServerSideProps = "false"

\* what the analysis does decide: the first named export statement alone
DetectsDataLoaderOfFirstNamedExport ==
    ret.called =>
        LET body == routes[arg.file].body
            i == FindType(body, "ExportNamedDeclaration", 1)
        IN  ret.getServerSideProps =
                (IF i = 0 THEN "false"
                 ELSE IF body[i].declaration = "null" THEN "throws"
                 ELSE IF SeqHas(body[i].names, GSSP) THEN "true"
                 ELSE "false")

====
